---- MODULE Spec2Model ----
(***************************************************************************)
(* Model of the Steam collectors of chiro8901/sotsuron.                    *)
(*                                                                         *)
(* Spec        : SteamPlayerCountCollector.collect_bulk                    *)
(*               (src/src/steam_player_count_fast.py) as a sequential      *)
(*               process with checkpoint files on disk, process kills and  *)
(*               restarts (fresh or with resume=True).                     *)
(* SpecReview  : SteamDataCollector.collect_bulk / collect_single_game     *)
(*               (src/src/steam_api_revews.py), the multi-request          *)
(*               collector.                                                *)
(* SpecSample  : random_sample_app_ids called twice, with the random       *)
(*               module as a small congruential generator.                 *)
(* SpecMain    : main() of steam_player_count_fast.py.                     *)
(* SpecAnalysis: calc_power_law_simple.py, check_power_law.py and          *)
(*               analyze_review_power_law.py, one step at a time.          *)
(***************************************************************************)
EXTENDS Integers, Sequences, FiniteSets, TLC

\* ---------------------------------------------------------------- bounds
MaxLen == 4
MaxInterval == 2
MaxRuns == 2
MaxFaults == 1
MaxSample == 3

VARIABLES
  pc,                  \* position of the process: idle/loop/save_ckpt/save_pids/done/raised
  checkpoint_interval, \* self.checkpoint_interval
  oracle,              \* the remote service: identifier -> "any" / "ok" / "fail"
  app_ids,             \* argument of the current (or latest) collect_bulk call
  resume,              \* argument resume of the current call
  i,                   \* loop index of enumerate(app_ids, 1); 0 before the loop
  all_data,            \* accumulator
  processed_ids,       \* set of processed identifiers
  start_index,         \* local start_index
  checkpoint_loaded,   \* local checkpoint_loaded
  stats,               \* self.stats counters
  response,            \* the response to the request of the latest loop pass
  ckpt,                \* disk: counter -> checkpoint file of the prefix
  pids_file,           \* disk: the processed-ID file of the prefix
  sleeps,              \* number of time.sleep(self.delay) calls of this run
  fetched,             \* history: identifier -> number of requests in this run
  runs,                \* history: number of collect_bulk calls so far
  same_list,           \* history: every call so far had the same app_ids
  wrote,               \* history: this run wrote a checkpoint file
  interrupted,         \* history: the previous run was killed after it wrote a checkpoint
  newest,              \* history: counter of the checkpoint file written last (0: none)
  step_ckpt,           \* history: outcome of _save_checkpoint in the latest checkpoint step
  step_pids,           \* history: outcome of _save_processed_ids in the latest checkpoint step
  last_visit,          \* history: what the loop did at position i: none/skip/ok/fail
  faults,              \* history: number of failed or torn file writes so far
  rv,                  \* state of the multi-request collector (SpecReview)
  sm,                  \* state of the sampler and of the random module (SpecSample)
  mn,                  \* state of main() (SpecMain)
  an                   \* state of the analysis scripts (SpecAnalysis)

vars == <<pc, checkpoint_interval, oracle, app_ids, resume, i, all_data, processed_ids,
          start_index, checkpoint_loaded, stats, response, ckpt, pids_file, sleeps,
          fetched, runs, same_list, wrote, interrupted, newest, step_ckpt, step_pids,
          last_visit, faults, rv, sm, mn, an>>

collectorVars == <<pc, checkpoint_interval, oracle, app_ids, resume, i, all_data,
                   processed_ids, start_index, checkpoint_loaded, stats, response, ckpt,
                   pids_file, sleeps, fetched, runs, same_list, wrote, interrupted, newest,
                   step_ckpt, step_pids, last_visit, faults>>

\* ------------------------------------------------------------ data types
\* identifiers: enough of them for a list of MaxLen distinct ones
IDs == 1..MaxLen

\* The lists a first call on a prefix can get, for every length up to MaxLen:
\* n distinct identifiers; one identifier twice in a row at the front; the first
\* identifier again at the end.
Distinct(n) == [k \in 1..n |-> k]
RepeatFront(n) == [k \in 1..n |-> IF k = 1 THEN 1 ELSE k - 1]
RepeatBack(n) == [k \in 1..n |-> IF k = n THEN 1 ELSE k]

IdLists ==
  {Distinct(n) : n \in 0..MaxLen} \cup {RepeatFront(n) : n \in 2..MaxLen}
    \cup {RepeatBack(n) : n \in 3..MaxLen}

\* another sample of the same size: main() in resume mode draws the list again
\* (random_sample_app_ids with seed=None, lines 426-443)
Resampled(ids) == [k \in DOMAIN ids |-> (ids[k] % MaxLen) + 1]

\* The calls on one prefix: the first one gets any list, fresh or with
\* resume=True; main() gives a fresh run a new prefix (line 489), so a later
\* call on the same prefix is a resume, with the same list or with another
\* sample of the same size.
RunLists(n, ids) == IF n = 0 THEN IdLists ELSE {ids, Resampled(ids)}
RunModes(n) == IF n = 0 THEN BOOLEAN ELSE {TRUE}

\* the set of elements of a sequence
Range(s) == {s[k] : k \in 1..Len(s)}

\* {game['app_id'] for game in all_data}
IdsOf(data) == {data[k].app_id : k \in 1..Len(data)}

\* An HTTP exchange of GetNumberOfCurrentPlayers as the code sees it.
\* transport: the request returned at all (no timeout / connection error)
\* status   : response.status_code
\* parsable : response.json() succeeds
\* result   : data['response']['result'] (0: key absent)
\* has_count: data['response'] has the key player_count
Resp(t, s, p, r, h, c) ==
  [transport |-> t, status |-> s, parsable |-> p, result |-> r, has_count |-> h,
   player_count |-> c]

RespTimeout    == Resp(FALSE, 0, FALSE, 0, FALSE, 0)
RespHttpError  == Resp(TRUE, 500, FALSE, 0, FALSE, 0)
RespUnparsable == Resp(TRUE, 200, FALSE, 0, FALSE, 0)
RespNotFound   == Resp(TRUE, 200, TRUE, 42, FALSE, 0)
RespNoCount    == Resp(TRUE, 200, TRUE, 1, FALSE, 0)

\* no request was made
NoResp == Resp(FALSE, 0, FALSE, 0, FALSE, 7)

\* the responses that give no record
FailResponses == {RespTimeout, RespHttpError, RespUnparsable, RespNotFound, RespNoCount}

\* the full answer for a title: titles with an odd identifier have players now
PlayersOf(app_id) == IF app_id % 2 = 1 THEN 5 ELSE 0
RespCount(app_id) == Resp(TRUE, 200, TRUE, 1, TRUE, PlayersOf(app_id))

\* what the remote service can answer for app_id: anything, or, for a service
\* whose outcome depends only on the identifier, what the oracle fixes
Responses(app_id) ==
  CASE oracle[app_id] = "ok" -> {RespCount(app_id)}
    [] oracle[app_id] = "fail" -> FailResponses
    [] OTHER -> FailResponses \cup {RespCount(app_id)}

\* get_player_count with data['response'].get('player_count', 0) for the guarded
\* lookup: a response without the count gives a record with count 0
get_player_count_default(app_id, r) ==
  IF ~r.transport THEN <<>>
  ELSE IF r.status # 200 THEN <<>>
  ELSE IF ~r.parsable THEN <<>>
  ELSE IF r.result # 1 THEN <<>>
  ELSE <<[app_id |-> app_id, player_count |-> IF r.has_count THEN r.player_count ELSE 0]>>

\* get_player_count: Optional[Dict] as a sequence, <<>> for None
get_player_count(app_id, r) ==
  IF ~r.transport THEN <<>>                 \* session.get raised: except: pass
  ELSE IF r.status # 200 THEN <<>>
  ELSE IF ~r.parsable THEN <<>>             \* response.json() raised
  ELSE IF r.result # 1 THEN <<>>
  ELSE IF ~r.has_count THEN <<>>            \* KeyError: except: pass
  ELSE <<[app_id |-> app_id, player_count |-> r.player_count]>>

\* ------------------------------------------------------------------ disk
Absent == [state |-> "absent", data |-> <<>>]
Corrupt == [state |-> "corrupt", data |-> <<>>]
\* a dump that loses the newest record
FileOfButLast(data) ==
  [state |-> "ok", data |-> IF data = <<>> THEN <<>> ELSE SubSeq(data, 1, Len(data) - 1)]

\* json.dump(data, f) on a file opened with 'w' (lines 279-280)
FileOf(data) == [state |-> "ok", data |-> data]

NoPids == [state |-> "absent", ids |-> {}]
CorruptPids == [state |-> "corrupt", ids |-> {}]
PidsOf(ids) == [state |-> "ok", ids |-> ids]

Counters == 1..MaxLen

\* ------------------------------------------------------------ resume scan
\* for i in range(len(app_ids), 0, -self.checkpoint_interval): the first candidate
\* that exists and loads; a candidate that raises while loading is logged and the
\* scan goes on with the next one.
NotLoaded ==
  [all_data |-> <<>>, processed_ids |-> {}, start_index |-> 0, checkpoint_loaded |-> FALSE]

\* a load that does not derive processed_ids from the records
LoadedStateNoIds(data, k) ==
  [all_data |-> data, processed_ids |-> {}, start_index |-> k, checkpoint_loaded |-> TRUE]

\* a load that restores the identifiers and drops the records
LoadedStateNoData(data, k) ==
  [all_data |-> <<>>, processed_ids |-> IdsOf(data), start_index |-> k,
   checkpoint_loaded |-> TRUE]

\* a load that does not set checkpoint_loaded
LoadedStateUnflagged(data, k) ==
  [all_data |-> data, processed_ids |-> IdsOf(data), start_index |-> k,
   checkpoint_loaded |-> FALSE]

\* lines 199-202: the state after a candidate was loaded
LoadedState(data, k) ==
  [all_data |-> data, processed_ids |-> IdsOf(data), start_index |-> k,
   checkpoint_loaded |-> TRUE]

\* a scan that gives up at the first candidate that exists and does not load
RECURSIVE ScanFromNoFallback(_, _, _)
ScanFromNoFallback(k, c, files) ==
  IF k <= 0 THEN NotLoaded
  ELSE IF files[k].state = "absent" THEN ScanFromNoFallback(k - c, c, files)
  ELSE IF files[k].state = "corrupt" THEN NotLoaded
  ELSE LoadedState(files[k].data, k)

RECURSIVE ScanFrom(_, _, _)
ScanFrom(k, c, files) ==
  IF k <= 0 THEN NotLoaded
  ELSE IF files[k].state = "absent" THEN ScanFrom(k - c, c, files)   \* os.path.exists
  ELSE IF files[k].state = "corrupt" THEN ScanFrom(k - c, c, files)  \* json.load raised
  ELSE LoadedState(files[k].data, k)

ResumeScan(ids, c, files) == ScanFrom(Len(ids), c, files)

\* self.checkpoint_interval (line 39); an interval of 1 leaves no position
\* between two checkpoints, so the intervals start at 2
Intervals == 2..MaxInterval

ZeroStats == [total_requested |-> 0, successful |-> 0, failed |-> 0, with_players |-> 0]

NoFetches == [a \in IDs |-> 0]
\* ------------------------------------------------------------------------
\* SteamDataCollector (steam_api_revews.py): three requests per identifier
\* ------------------------------------------------------------------------
\* Optional values are sequences: <<>> is None, <<v>> is the value v
None == <<>>
Some(v) == <<v>>

\* SteamDataCollector.get_player_count: the count itself, or None
review_get_player_count(r) ==
  IF ~r.transport THEN None
  ELSE IF r.status # 200 THEN None
  ELSE IF ~r.parsable THEN None
  ELSE IF r.result # 1 THEN None
  ELSE IF ~r.has_count THEN None
  ELSE Some(r.player_count)

\* the outcome of the appreviews request
Rev(t, s, p, o, q, n) ==
  [transport |-> t, status |-> s, parsable |-> p, is_object |-> o,
   has_summary |-> q, total_reviews |-> n]
RevTimeout == Rev(FALSE, 0, FALSE, FALSE, FALSE, 0)
RevHttpError == Rev(TRUE, 500, FALSE, FALSE, FALSE, 0)
RevUnparsable == Rev(TRUE, 200, FALSE, FALSE, FALSE, 0)
RevNotObject == Rev(TRUE, 200, TRUE, FALSE, FALSE, 0)
RevNoSummary == Rev(TRUE, 200, TRUE, TRUE, FALSE, 0)
RevSummary(app_id) == Rev(TRUE, 200, TRUE, TRUE, TRUE, app_id)
NoRev == Rev(FALSE, 0, FALSE, FALSE, FALSE, 9)
\* the responses of the review request that carry no review summary
RevAbsentResponses == {RevTimeout, RevHttpError, RevUnparsable, RevNotObject, RevNoSummary}
RevResponses(app_id) == RevAbsentResponses \cup {RevSummary(app_id)}

\* a get_review_count that returns None unless the summary is there
get_review_count_strict(r) ==
  IF ~r.transport THEN None
  ELSE IF r.status # 200 THEN None
  ELSE IF ~r.parsable THEN None
  ELSE IF ~r.is_object THEN None
  ELSE IF ~r.has_summary THEN None
  ELSE Some([total_reviews |-> r.total_reviews])

\* get_review_count: query_summary = data.get('query_summary', {}) and
\* query_summary.get('total_reviews', 0): a 200 body without the summary gives 0
get_review_count(r) ==
  IF ~r.transport THEN None
  ELSE IF r.status # 200 THEN None
  ELSE IF ~r.parsable THEN None
  ELSE IF ~r.is_object THEN None
  ELSE Some([total_reviews |-> IF r.has_summary THEN r.total_reviews ELSE 0])

\* the outcome of the appdetails request
Game(t, s, p, e, ok, d, ty) ==
  [transport |-> t, status |-> s, parsable |-> p, has_entry |-> e, success |-> ok,
   has_data |-> d, type |-> ty]
GameTimeout == Game(FALSE, 0, FALSE, FALSE, FALSE, FALSE, "none")
GameHttpError == Game(TRUE, 404, FALSE, FALSE, FALSE, FALSE, "none")
GameUnparsable == Game(TRUE, 200, FALSE, FALSE, FALSE, FALSE, "none")
GameNoEntry == Game(TRUE, 200, TRUE, FALSE, FALSE, FALSE, "none")
GameNotFound == Game(TRUE, 200, TRUE, TRUE, FALSE, FALSE, "none")
GameNoData == Game(TRUE, 200, TRUE, TRUE, TRUE, FALSE, "none")
GameDlc == Game(TRUE, 200, TRUE, TRUE, TRUE, TRUE, "dlc")
GameOk == Game(TRUE, 200, TRUE, TRUE, TRUE, TRUE, "game")
NoGame == Game(FALSE, 0, FALSE, FALSE, FALSE, FALSE, "unset")
GameResponses ==
  {GameTimeout, GameHttpError, GameUnparsable, GameNoEntry, GameNotFound, GameNoData,
   GameDlc, GameOk}

\* an is_game that does not look at the type of the application
is_game_any_type(r) ==
  IF ~r.transport THEN FALSE
  ELSE IF r.status # 200 THEN FALSE
  ELSE IF ~r.parsable THEN FALSE
  ELSE IF ~r.has_entry THEN FALSE
  ELSE IF ~r.success THEN FALSE
  ELSE r.has_data

\* is_game: True only for a 200 body whose entry has success and type 'game'
is_game(r) ==
  IF ~r.transport THEN FALSE
  ELSE IF r.status # 200 THEN FALSE
  ELSE IF ~r.parsable THEN FALSE
  ELSE IF ~r.has_entry THEN FALSE
  ELSE IF ~r.success THEN FALSE
  ELSE IF ~r.has_data THEN FALSE
  ELSE r.type = "game"

\* collect_single_game lines 181-196: the record, built whatever the two
\* requests after is_game returned
GameRecord(app_id, player_count, review_data) ==
  [app_id |-> app_id,
   player_count |-> player_count,
   total_reviews |-> IF review_data = None THEN None
                     ELSE Some(review_data[1].total_reviews)]

\* before collect_bulk is called nothing of it exists
ReviewIdle == [pc |-> "idle"]

\* collect_bulk lines 202-204: the locals of a call
ReviewFresh ==
  [pc |-> "idle", app_ids |-> <<>>, i |-> 0, all_data |-> <<>>, successful |-> 0,
   failed |-> 0, sleeps |-> 0, game_resp |-> NoGame, player_resp |-> NoResp,
   review_resp |-> NoRev, player_count |-> None, appended |-> FALSE,
   requests |-> <<>>]


\* ------------------------------------------------------------------------
\* random_sample_app_ids and the random module
\* ------------------------------------------------------------------------
\* the generator of the random module: a state, stepped by every draw
RngStates == 0..15
NextRng(x) == (5 * x + 3) % 16

\* random.seed(seed): the state is a function of the seed alone
SeedState(seed) == (7 * seed + 2) % 16

\* if seed: random.seed(seed) -- a seed of 0 would not seed
SeededRngTruthy(seed, rng) ==
  IF seed # None /\ seed # Some(0) THEN SeedState(seed[1]) ELSE rng

\* lines 140-142: if seed is not None: random.seed(seed)
SeededRng(seed, rng) ==
  IF seed # None THEN SeedState(seed[1]) ELSE rng

\* random.sample(population, k) for a small population: k times, draw
\* j = randbelow(n - i), take pool[j] and move the last free element to j.
\* pool holds positions of the population; the result is the positions picked
\* and the state of the generator afterwards.
RECURSIVE SampleLoop(_, _, _, _, _)
SampleLoop(pool, n, k, picked, rng) ==
  IF Len(picked) = k THEN [picked |-> picked, rng |-> rng]
  ELSE LET free == n - Len(picked)
           x == NextRng(rng)
           j == (x % free) + 1
       IN  SampleLoop([pool EXCEPT ![j] = pool[free]], n, k, Append(picked, pool[j]), x)

random_sample(n, k, rng) == SampleLoop([p \in 1..n |-> p], n, k, <<>>, rng)

Min(a, b) == IF a < b THEN a ELSE b

\* random_sample_app_ids (lines 131-150): seed, sample min(sample_size, len)
\* positions, log min(sampled_ids) and max(sampled_ids) -- which raises
\* ValueError for an empty sample -- and return the sampled ids
random_sample_app_ids(all_app_ids, sample_size, seed, rng) ==
  LET actual_sample_size == Min(sample_size, Len(all_app_ids))
      drawn == random_sample(Len(all_app_ids), actual_sample_size, SeededRng(seed, rng))
      sampled_ids == [j \in 1..actual_sample_size |-> all_app_ids[drawn.picked[j]]]
  IN  [raised |-> sampled_ids = <<>>,
       sampled_ids |-> sampled_ids,
       picked |-> drawn.picked,
       rng |-> drawn.rng]

\* the universes, target counts and seeds of the calls
Universes == IdLists \ {<<>>}
SampleSizes == 0..(MaxLen + 1)
Seeds == {None, Some(0), Some(1)}

NoCall ==
  [made |-> FALSE, raised |-> FALSE, sampled_ids |-> <<>>, picked |-> <<>>, rng_before |-> 0]
\* before the first call there is only the state of the generator
SampleIdle == [pc |-> "idle", rng |-> 0]

\* ------------------------------------------------------------------------
\* main()
\* ------------------------------------------------------------------------
\* before main() is started
MainIdle == [pc |-> "idle"]

\* main() lines 378-420: before any prompt for a target count
MainFresh ==
  [pc |-> "idle", resume_mode |-> FALSE, all_app_ids |-> <<>>, target_count |-> 0,
   app_ids_to_collect |-> <<>>, sampled |-> FALSE, confirmed |-> FALSE, requests |-> 0,
   i |-> 0, fetches |-> 0, checkpoints |-> 0, collected_data |-> <<>>, outputs |-> 0,
   has_more |-> TRUE, pages |-> 0, last_page |-> "none"]

\* what get_all_app_ids can return: [] after a failed request, or the identifiers
AppIdUniverses == {Distinct(n) : n \in 0..MaxLen}

\* One request of _get_app_ids_via_store_service as the loop sees it:
\* "failed": session.get, raise_for_status, resp.json() or app['appid'] raised;
\* "empty" : the body has no apps; "ids": a page of identifiers with its
\* have_more_results flag (False when the key is absent)
PageFailed == [kind |-> "failed", ids |-> <<>>, have_more |-> FALSE]
PageEmpty == [kind |-> "empty", ids |-> <<>>, have_more |-> FALSE]
PageOf(from, size, more) ==
  [kind |-> "ids", ids |-> [k \in 1..size |-> from + k], have_more |-> more]

\* the pages the service can answer with after `listed` identifiers
MaxPage == 2
Pages(listed) ==
  {PageFailed, PageEmpty}
    \cup {PageOf(listed, size, more) : size \in 1..Min(MaxPage, MaxLen - listed),
                                       more \in BOOLEAN}

\* a listing that counts as failed when a page request fails
AfterPageAllOrNothing(app_ids_so_far, page) ==
  CASE page.kind = "ids" -> app_ids_so_far \o page.ids
    [] page.kind = "failed" -> <<>>
    [] OTHER -> app_ids_so_far

\* app_ids after one pass of the while loop (lines 102-124): extended by the
\* page, or as it was when the pass ends in a break
AfterPage(app_ids_so_far, page) ==
  CASE page.kind = "ids" -> app_ids_so_far \o page.ids
    [] OTHER -> app_ids_so_far

\* the loop goes on: no break, and has_more is true (line 93)
LoopGoesOn(page) == page.kind = "ids" /\ page.have_more

\* main() goes on although the universe is empty
MainAfterIdsUnchecked(m) ==
  [m EXCEPT !.pc = IF m.resume_mode THEN "restore" ELSE "choose"]

\* lines 414-416: if not all_app_ids: logger.error(...); return
MainAfterIds(m) ==
  [m EXCEPT !.pc = IF m.all_app_ids = <<>> THEN "halted"
                   ELSE IF m.resume_mode THEN "restore" ELSE "choose"]

\* ------------------------------------------------------------------------
\* the analysis scripts
\* ------------------------------------------------------------------------
\* the samples the scripts are run on: every list of up to MaxSample values out
\* of 0, 1, 10, 100, and four fixed lists
RECURSIVE SeqsUpTo(_, _)
SeqsUpTo(S, n) ==
  IF n = 0 THEN {<<>>}
  ELSE LET shorter == SeqsUpTo(S, n - 1)
       IN  shorter \cup {Append(q, v) : q \in {t \in shorter : Len(t) = n - 1}, v \in S}

SmallValues == {0, 1, 10, 100}
FixedSamples ==
  {<<100, 10, 1>>, <<5, 5, 5, 5>>, <<1000, 500, 250, 125>>, <<0, 125, 0, 1000>>,
   <<10, 100, 1, 10, 1>>}
Samples == SeqsUpTo(SmallValues, MaxSample) \cup FixedSamples

\* data = np.array([x for x in data if x > 0]) / series[series > 0]
RECURSIVE PositiveOnly(_)
PositiveOnly(q) ==
  IF q = <<>> THEN <<>>
  ELSE IF Head(q) > 0 THEN <<Head(q)>> \o PositiveOnly(Tail(q))
  ELSE PositiveOnly(Tail(q))

\* np.sort: ascending, by insertion
RECURSIVE Insert(_, _)
Insert(v, q) ==
  IF q = <<>> THEN <<v>>
  ELSE IF v <= Head(q) THEN <<v>> \o q
  ELSE <<Head(q)>> \o Insert(v, Tail(q))

\* the sample as it is, not sorted
Unsorted(q) == q

RECURSIVE SortAsc(_)
SortAsc(q) == IF q = <<>> THEN <<>> ELSE Insert(Head(q), SortAsc(Tail(q)))

\* np.sort(data)[::-1]
SortDesc(q) == LET a == SortAsc(q) IN [k \in 1..Len(a) |-> a[Len(a) + 1 - k]]

\* np.log10 in fixed point: 100 * log10(v) rounded, for the ranks and values
\* of the samples
Log10Centi(v) ==
  CASE v = 1 -> 0
    [] v = 2 -> 30
    [] v = 3 -> 48
    [] v = 4 -> 60
    [] v = 5 -> 70
    [] v = 6 -> 78
    [] v = 10 -> 100
    [] v = 100 -> 200
    [] v = 125 -> 210
    [] v = 250 -> 240
    [] v = 500 -> 270
    [] v = 1000 -> 300

\* the ranks themselves in place of their logarithms
LinearRanks(n) == [k \in 1..n |-> 10 * k]

\* ranks = np.arange(1, n + 1); log_ranks = np.log10(ranks)
LogRanks(n) == [k \in 1..n |-> Log10Centi(k)]

\* log_values = np.log10(sorted_data)
LogValues(sorted_data) == [k \in 1..Len(sorted_data) |-> Log10Centi(sorted_data[k])]

RECURSIVE SumSeq(_)
SumSeq(q) == IF q = <<>> THEN 0 ELSE Head(q) + SumSeq(Tail(q))
Times(x, y) == [k \in 1..Len(x) |-> x[k] * y[k]]

\* stats.linregress(x, y): the sums of squares about the means, times n * n.
\* r is 0.0 when one of ssxm, ssym is 0; r_squared = ssxym^2 / (ssxm * ssym).
linregress(x, y) ==
  LET n == Len(x)
  IN  [ssxm  |-> n * SumSeq(Times(x, x)) - SumSeq(x) * SumSeq(x),
       ssym  |-> n * SumSeq(Times(y, y)) - SumSeq(y) * SumSeq(y),
       ssxym |-> n * SumSeq(Times(x, y)) - SumSeq(x) * SumSeq(y)]
NoRegression == [ssxm |-> 0, ssym |-> 0, ssxym |-> 0]

\* slope = ssxym / ssxm is a number unless ssxm is 0: linregress refuses equal x
\* values only for more than one point, a single point gives 0.0 / 0.0 = nan
SlopeIsNumber(reg) == reg.ssxm # 0

\* gini = (2 * sum(index * sorted)) / (n * sum(sorted)) - (n + 1) / n as the
\* fraction num / den over the common denominator n * sum(sorted)
Gini(values) ==
  LET sorted_asc == SortAsc(values)
      n == Len(sorted_asc)
      index == [k \in 1..n |-> k]
  IN  [num |-> 2 * SumSeq(Times(index, sorted_asc)) - (n + 1) * SumSeq(sorted_asc),
       den |-> n * SumSeq(sorted_asc)]
NoGini == [num |-> 0, den |-> 0]

\* int(n * pct / 100): the number of values in the top pct percent
TopCount(n, pct) == (n * pct) \div 100
Max(a, b) == IF a >= b THEN a ELSE b

\* The sizes of the four top slices. analyze_review_power_law.py (lines 67,
\* 73-75) has max(1, .) for 1%, 5% and 10% and none for 20%; check_power_law.py
\* (lines 95, 110) has none at all.
TopCounts(script, n) ==
  IF script = "analyze_review_power_law"
  THEN [p1 |-> Max(1, TopCount(n, 1)), p5 |-> Max(1, TopCount(n, 5)),
        p10 |-> Max(1, TopCount(n, 10)), p20 |-> TopCount(n, 20)]
  ELSE [p1 |-> TopCount(n, 1), p5 |-> TopCount(n, 5),
        p10 |-> TopCount(n, 10), p20 |-> TopCount(n, 20)]

\* np.sum(sorted_desc[:count]) for the four slices and np.sum(sorted_desc);
\* a ratio is the slice sum over total
TopSums(script, values) ==
  LET sorted_desc == SortDesc(values)
      c == TopCounts(script, Len(sorted_desc))
  IN  [p1 |-> SumSeq(SubSeq(sorted_desc, 1, c.p1)),
       p5 |-> SumSeq(SubSeq(sorted_desc, 1, c.p5)),
       p10 |-> SumSeq(SubSeq(sorted_desc, 1, c.p10)),
       p20 |-> SumSeq(SubSeq(sorted_desc, 1, c.p20)),
       total |-> SumSeq(sorted_desc)]
NoTopSums == [p1 |-> 0, p5 |-> 0, p10 |-> 0, p20 |-> 0, total |-> 0]

\* the steps of each script, in the order of its code
Scripts == {"calc_power_law_simple", "check_power_law", "analyze_review_power_law"}
Pipeline(script) ==
  CASE script = "calc_power_law_simple" ->
         <<"filter", "guard", "log", "regress", "stats">>
    [] script = "check_power_law" ->
         <<"filter", "stats", "log", "regress", "gini", "topk">>
    [] script = "analyze_review_power_law" ->
         <<"filter", "guard", "stats", "log", "regress", "gini", "topk">>

\* before a script is started
AnalysisIdle == [pc |-> "idle"]

\* the variables of a script
AnalysisFresh ==
  [pc |-> "idle", script |-> "none", data |-> <<>>, sample |-> <<>>, k |-> 0,
   reached |-> {}, log_ranks |-> <<>>, log_values |-> <<>>,
   regression |-> NoRegression, gini |-> NoGini, top |-> NoTopSums]

\* ------------------------------------------------------------------ Init
InitCollector ==
  /\ pc = "idle"
  /\ checkpoint_interval \in Intervals
  /\ app_ids = <<>>
  /\ resume = FALSE
  /\ i = 0
  /\ all_data = <<>>
  /\ processed_ids = {}
  /\ start_index = 0
  /\ checkpoint_loaded = FALSE
  /\ stats = ZeroStats
  /\ response = NoResp
  /\ ckpt = [k \in Counters |-> Absent]
  /\ pids_file = NoPids
  /\ sleeps = 0
  /\ fetched = NoFetches
  /\ runs = 0
  /\ same_list = TRUE
  /\ wrote = FALSE
  /\ interrupted = FALSE
  /\ newest = 0
  /\ step_ckpt = "none"
  /\ step_pids = "none"
  /\ last_visit = "none"
  /\ faults = 0
  /\ rv = ReviewIdle
  /\ sm = SampleIdle
  /\ mn = MainIdle
  /\ an = AnalysisIdle

\* the remote service may answer anything at any time
Init == InitCollector /\ oracle = [a \in IDs |-> "any"]

\* the outcome of a request depends only on the identifier
InitIdem == InitCollector /\ oracle \in [IDs -> {"ok", "fail"}]

\* --------------------------------------------------------------- actions
\* A new process: __init__ and collect_bulk up to the loop (lines 29-54, 185-222).
StartRun(ids, r) ==
  /\ pc \in {"idle", "done", "raised"}
  /\ runs < MaxRuns
  /\ LET st == IF r THEN ResumeScan(ids, checkpoint_interval, ckpt) ELSE NotLoaded
     IN  /\ all_data' = st.all_data
         /\ processed_ids' = st.processed_ids
         /\ start_index' = st.start_index
         /\ checkpoint_loaded' = st.checkpoint_loaded
         /\ stats' = [ZeroStats EXCEPT !.total_requested = Len(ids),
                                       !.successful = Len(st.all_data)]
  /\ app_ids' = ids
  /\ resume' = r
  /\ i' = 0
  /\ pc' = "loop"
  /\ response' = NoResp
  /\ sleeps' = 0
  /\ fetched' = NoFetches
  /\ runs' = runs + 1
  /\ same_list' = (same_list /\ (runs = 0 \/ ids = app_ids))
  /\ wrote' = FALSE
  /\ interrupted' = (pc = "idle" /\ interrupted)
  /\ step_ckpt' = "none"
  /\ step_pids' = "none"
  /\ last_visit' = "none"
  /\ UNCHANGED <<checkpoint_interval, oracle, ckpt, pids_file, newest, faults, rv, sm, mn, an>>

\* if app_id in processed_ids: continue (line 226)
IsProcessed(app_id, processed) == app_id \in processed

\* if i % self.checkpoint_interval == 0 (line 261)
CheckpointDue(k, c) == k % c = 0

\* a sleep after every fetched item, the last one included
AfterSleepAlways(n, k) == n + 1

\* time.sleep(self.delay) unless the item was the last one (lines 267-269)
AfterSleep(n, k) == IF k < Len(app_ids) THEN n + 1 ELSE n

\* One pass of the loop body up to the checkpoint test (lines 224-261): the item
\* is skipped (continue) when it is in processed_ids; otherwise the request is
\* made and its result is appended or counted as failed. Without a checkpoint
\* at this position the pass ends with the rate-limit sleep.
Visit ==
  /\ pc = "loop"
  /\ i < Len(app_ids)
  /\ i' = i + 1
  /\ LET app_id == app_ids[i + 1]
     IN  IF IsProcessed(app_id, processed_ids)
         THEN /\ pc' = "loop"
              /\ last_visit' = "skip"
              /\ response' = NoResp
              /\ UNCHANGED <<fetched, all_data, processed_ids, stats, sleeps>>
         ELSE /\ \E r \in Responses(app_id) :
                   LET player_data == get_player_count(app_id, r)
                   IN  /\ response' = r
                       /\ IF player_data # <<>>
                          THEN /\ all_data' = Append(all_data, player_data[1])
                               /\ processed_ids' = processed_ids \cup {app_id}
                               /\ stats' = [stats EXCEPT
                                              !.successful = @ + 1,
                                              !.with_players =
                                                 IF player_data[1].player_count > 0
                                                 THEN @ + 1 ELSE @]
                               /\ last_visit' = "ok"
                          ELSE /\ stats' = [stats EXCEPT !.failed = @ + 1]
                               /\ last_visit' = "fail"
                               /\ UNCHANGED <<all_data, processed_ids>>
              /\ fetched' = [fetched EXCEPT ![app_id] = @ + 1]
              /\ IF CheckpointDue(i + 1, checkpoint_interval)
                 THEN pc' = "save_ckpt" /\ UNCHANGED sleeps
                 ELSE pc' = "loop" /\ sleeps' = AfterSleep(sleeps, i + 1)
  /\ step_ckpt' = "none"
  /\ step_pids' = "none"
  /\ UNCHANGED <<checkpoint_interval, oracle, app_ids, resume, start_index,
                 checkpoint_loaded, ckpt, pids_file, runs, same_list, wrote, interrupted,
                 newest, faults, rv, sm, mn, an>>

\* _save_checkpoint (lines 276-282): the write succeeds, or open() raises and the
\* file is as before, or the dump raises and leaves a truncated file; both errors
\* are caught and logged.
WriteOutcomes == {"ok", "open_error", "write_error"}

\* a _save_checkpoint without the try/except: the error of a failed write leaves
\* the function
save_checkpoint_uncaught(o, old, data) ==
  [file |-> CASE o = "ok" -> FileOf(data)
              [] o = "open_error" -> old
              [] OTHER -> Corrupt,
   raised |-> o # "ok"]

\* _save_checkpoint(data, filename) with write outcome o on a file that was old:
\* the file afterwards, and whether an exception leaves the function (never:
\* except Exception at line 281 logs it)
save_checkpoint(o, old, data) ==
  [file |-> CASE o = "ok" -> FileOf(data)
              [] o = "open_error" -> old
              [] OTHER -> Corrupt,
   raised |-> FALSE]

\* _save_processed_ids(processed_ids, filename), likewise (lines 284-290)
save_processed_ids(o, old, ids) ==
  [file |-> CASE o = "ok" -> PidsOf(ids)
              [] o = "open_error" -> old
              [] OTHER -> CorruptPids,
   raised |-> FALSE]

SaveCheckpoint ==
  /\ pc = "save_ckpt"
  /\ \E o \in WriteOutcomes :
       LET saved == save_checkpoint(o, ckpt[i], all_data)
       IN  /\ o # "ok" => faults < MaxFaults
           /\ faults' = IF o = "ok" THEN faults ELSE faults + 1
           /\ step_ckpt' = o
           /\ ckpt' = [ckpt EXCEPT ![i] = saved.file]
           /\ wrote' = (wrote \/ o = "ok")
           /\ newest' = IF o = "ok" THEN i ELSE newest
           /\ pc' = IF saved.raised THEN "raised" ELSE "save_pids"
  /\ step_pids' = "none"
  /\ response' = NoResp
  /\ UNCHANGED <<checkpoint_interval, oracle, app_ids, resume, i, all_data, processed_ids,
                 start_index, checkpoint_loaded, stats, pids_file, sleeps,
                 fetched, runs, same_list, interrupted, last_visit, rv, sm, mn, an>>

\* _save_processed_ids (lines 284-290)
SaveProcessedIds ==
  /\ pc = "save_pids"
  /\ \E o \in WriteOutcomes :
       LET saved == save_processed_ids(o, pids_file, processed_ids)
       IN  /\ o # "ok" => faults < MaxFaults
           /\ faults' = IF o = "ok" THEN faults ELSE faults + 1
           /\ step_pids' = o
           /\ pids_file' = saved.file
           /\ pc' = IF saved.raised THEN "raised" ELSE "loop"
  /\ sleeps' = AfterSleep(sleeps, i)
  /\ response' = NoResp
  /\ UNCHANGED <<checkpoint_interval, oracle, app_ids, resume, i, all_data, processed_ids,
                 start_index, checkpoint_loaded, stats, ckpt, fetched,
                 runs, same_list, wrote, interrupted, newest, step_ckpt, last_visit, rv, sm, mn, an>>

\* Lines 271-274 and _print_final_stats (292-306): successful / total_requested
\* raises ZeroDivisionError for an empty list.
Finish ==
  /\ pc = "loop"
  /\ i = Len(app_ids)
  /\ pc' = IF stats.total_requested = 0 THEN "raised" ELSE "done"
  /\ UNCHANGED <<checkpoint_interval, oracle, app_ids, resume, i, all_data, processed_ids,
                 start_index, checkpoint_loaded, stats, response, ckpt, pids_file, sleeps,
                 fetched, runs, same_list, wrote, interrupted, newest, step_ckpt,
                 step_pids, last_visit, faults, rv, sm, mn, an>>

\* The process is killed: memory is gone, the disk stays. A kill while a file is
\* being written can leave that file truncated.
Kill ==
  /\ pc \in {"loop", "save_ckpt", "save_pids"}
  /\ \/ UNCHANGED <<ckpt, pids_file, faults>>
     \/ /\ pc = "save_ckpt"
        /\ faults < MaxFaults
        /\ ckpt' = [ckpt EXCEPT ![i] = Corrupt]
        /\ faults' = faults + 1
        /\ UNCHANGED pids_file
     \/ /\ pc = "save_pids"
        /\ faults < MaxFaults
        /\ pids_file' = CorruptPids
        /\ faults' = faults + 1
        /\ UNCHANGED ckpt
  /\ pc' = "idle"
  /\ interrupted' = wrote
  /\ all_data' = <<>>
  /\ processed_ids' = {}
  /\ i' = 0
  /\ start_index' = 0
  /\ checkpoint_loaded' = FALSE
  /\ stats' = ZeroStats
  /\ response' = NoResp
  /\ sleeps' = 0
  /\ fetched' = NoFetches
  /\ wrote' = FALSE
  /\ step_ckpt' = "none"
  /\ step_pids' = "none"
  /\ last_visit' = "none"
  /\ UNCHANGED <<checkpoint_interval, oracle, app_ids, resume, runs, same_list, newest, rv, sm, mn, an>>

Next ==
  \/ \E ids \in RunLists(runs, app_ids), r \in RunModes(runs) : StartRun(ids, r)
  \/ Visit
  \/ SaveCheckpoint
  \/ SaveProcessedIds
  \/ Finish
  \/ Kill

Spec == Init /\ [][Next]_vars

SpecIdem == InitIdem /\ [][Next]_vars

\* ------------------------------------------------------------------------
\* SteamDataCollector.collect_bulk
\* ------------------------------------------------------------------------
InitReview ==
  /\ InitCollector
  /\ oracle = [a \in IDs |-> "any"]

\* collect_bulk lines 198-206: the loop starts on the first identifier
ReviewStart(ids) ==
  /\ rv.pc = "idle"
  /\ rv' = [ReviewFresh EXCEPT !.pc = IF ids = <<>> THEN "loop" ELSE "is_game",
                              !.app_ids = ids]
  /\ UNCHANGED <<collectorVars, sm, mn, an>>

\* the loop variables after the item at position k is done (lines 211-223)
ReviewAdvance(s, k) ==
  [s EXCEPT !.i = k,
            !.sleeps = IF k < Len(s.app_ids) THEN @ + 1 ELSE @,
            !.pc = IF k < Len(s.app_ids) THEN "is_game" ELSE "loop"]

\* collect_single_game lines 169-170 and collect_bulk 210-220: the appdetails
\* request; not a game gives None and the item counts as failed
IsGameRequest ==
  /\ rv.pc = "is_game"
  /\ \E r \in GameResponses :
       rv' = IF is_game(r)
             THEN [rv EXCEPT !.game_resp = r, !.pc = "player", !.appended = FALSE,
                             !.requests = <<"is_game", "sleep">>]
             ELSE ReviewAdvance([rv EXCEPT !.game_resp = r, !.appended = FALSE,
                                           !.failed = @ + 1,
                                           !.requests = <<"is_game">>], rv.i + 1)
  /\ UNCHANGED <<collectorVars, sm, mn, an>>

\* collect_single_game lines 172-175: the player count request
PlayerCountRequest ==
  /\ rv.pc = "player"
  /\ \E r \in FailResponses \cup {RespCount(rv.app_ids[rv.i + 1])} :
       rv' = [rv EXCEPT !.player_resp = r, !.player_count = review_get_player_count(r),
                        !.pc = "review",
                        !.requests = @ \o <<"player_count", "sleep">>]
  /\ UNCHANGED <<collectorVars, sm, mn, an>>

\* collect_single_game lines 177-196 and collect_bulk 212-223: the review
\* request, the record, and the append
ReviewCountRequest ==
  /\ rv.pc = "review"
  /\ \E r \in RevResponses(rv.app_ids[rv.i + 1]) :
       rv' = ReviewAdvance(
               [rv EXCEPT !.review_resp = r,
                          !.all_data = Append(@, GameRecord(rv.app_ids[rv.i + 1],
                                                             rv.player_count,
                                                             get_review_count(r))),
                          !.successful = @ + 1,
                          !.appended = TRUE,
                          !.requests = Append(@, "review_count")],
               rv.i + 1)
  /\ UNCHANGED <<collectorVars, sm, mn, an>>

\* collect_bulk lines 225-226: the loop is over, all_data is returned
ReviewFinish ==
  /\ rv.pc = "loop"
  /\ rv' = [rv EXCEPT !.pc = "done"]
  /\ UNCHANGED <<collectorVars, sm, mn, an>>

NextReview ==
  \/ \E n \in 0..MaxLen : ReviewStart(Distinct(n))
  \/ IsGameRequest
  \/ PlayerCountRequest
  \/ ReviewCountRequest
  \/ ReviewFinish

SpecReview == InitReview /\ [][NextReview]_vars

\* ------------------------------------------------------------------------
\* random_sample_app_ids called twice with the same arguments
\* ------------------------------------------------------------------------
CallRecord(out, rng) ==
  [made |-> TRUE, raised |-> out.raised, sampled_ids |-> out.sampled_ids,
   picked |-> out.picked, rng_before |-> rng]

\* the first call of random_sample_app_ids(all_app_ids, sample_size, seed)
SampleCall(U, k, seed) ==
  /\ sm.pc = "idle"
  /\ LET out == random_sample_app_ids(U, k, seed, sm.rng)
     IN  sm' = [pc |-> "called", rng |-> out.rng, all_app_ids |-> U, sample_size |-> k,
                seed |-> seed, first |-> CallRecord(out, sm.rng), second |-> NoCall]
  /\ UNCHANGED <<collectorVars, rv, mn, an>>

\* the same call once more
SampleAgain ==
  /\ sm.pc = "called"
  /\ LET out == random_sample_app_ids(sm.all_app_ids, sm.sample_size, sm.seed, sm.rng)
     IN  sm' = [sm EXCEPT !.pc = "called_twice", !.rng = out.rng,
                          !.second = CallRecord(out, sm.rng)]
  /\ UNCHANGED <<collectorVars, rv, mn, an>>

\* any other draw from the random module, before or between the calls
OtherDraw ==
  /\ sm' = [sm EXCEPT !.rng = NextRng(@)]
  /\ UNCHANGED <<collectorVars, rv, mn, an>>

NextSample ==
  \/ \E U \in Universes, k \in SampleSizes, seed \in Seeds : SampleCall(U, k, seed)
  \/ SampleAgain
  \/ OtherDraw

SpecSample == Init /\ [][NextSample]_vars

\* ------------------------------------------------------------------------
\* main() of steam_player_count_fast.py
\* ------------------------------------------------------------------------
\* lines 391-401: checkpoint files in the directory and the answer to the
\* resume prompt
MainStart(has_checkpoints, answer) ==
  /\ mn.pc = "idle"
  /\ mn' = [MainFresh EXCEPT !.pc = "get_ids", !.resume_mode = has_checkpoints /\ answer]
  /\ UNCHANGED <<collectorVars, rv, sm, an>>

\* lines 411-418: the request for the list of all applications, then the test
\* for the empty universe
MainGetAllAppIds(U) ==
  /\ mn.pc = "get_ids"
  /\ mn.pages = 0
  /\ mn' = MainAfterIds([mn EXCEPT !.all_app_ids = U, !.requests = @ + 1])
  /\ UNCHANGED <<collectorVars, rv, sm, an>>

\* get_all_app_ids with an API key: one pass of the loop of
\* _get_app_ids_via_store_service (lines 93-124); when the loop is left, the
\* list is returned and main() tests it (lines 126-129, 412-416)
MainListPage(page) ==
  /\ mn.pc = "get_ids"
  /\ mn.has_more
  /\ LET listed == [mn EXCEPT !.all_app_ids = AfterPage(@, page),
                              !.requests = @ + 1,
                              !.pages = @ + 1,
                              !.last_page = page.kind,
                              !.has_more = LoopGoesOn(page)]
     IN  mn' = IF LoopGoesOn(page) THEN listed ELSE MainAfterIds(listed)
  /\ UNCHANGED <<collectorVars, rv, sm, an>>

\* the identifiers to collect after a call of random_sample_app_ids, or the
\* exception of that call
MainAfterSample(m, out) ==
  IF out.raised THEN [m EXCEPT !.pc = "raised", !.sampled = TRUE]
  ELSE [m EXCEPT !.pc = "confirm", !.sampled = TRUE, !.app_ids_to_collect = out.sampled_ids]

\* lines 426-443: resume mode takes the target count from the name of the
\* newest checkpoint file and samples the universe again, without a seed
MainRestore(n, rng) ==
  /\ mn.pc = "restore"
  /\ mn' = MainAfterSample([mn EXCEPT !.target_count = n],
                           random_sample_app_ids(mn.all_app_ids, n, None, rng))
  /\ UNCHANGED <<collectorVars, rv, sm, an>>

\* lines 445-489: the target count and the seed are read, and the universe is
\* sampled when the target is below its size
MainChoose(n, seed, rng) ==
  /\ mn.pc = "choose"
  /\ mn' = IF n < Len(mn.all_app_ids)
           THEN MainAfterSample([mn EXCEPT !.target_count = n],
                                random_sample_app_ids(mn.all_app_ids, n, seed, rng))
           ELSE [mn EXCEPT !.pc = "confirm", !.target_count = n,
                           !.app_ids_to_collect = mn.all_app_ids]
  /\ UNCHANGED <<collectorVars, rv, sm, an>>

\* lines 491-502: the start confirmation
MainConfirm(answer) ==
  /\ mn.pc = "confirm"
  /\ mn' = [mn EXCEPT !.pc = IF answer THEN "collect" ELSE "cancelled",
                      !.confirmed = answer]
  /\ UNCHANGED <<collectorVars, rv, sm, an>>

\* line 505, one position of collect_bulk: the item is fetched (or, in a
\* resumed run, skipped), and a checkpoint is written when one is due
MainVisit(outcome) ==
  /\ mn.pc = "collect"
  /\ mn.i < Len(mn.app_ids_to_collect)
  /\ outcome = "skip" => mn.resume_mode
  /\ LET k == mn.i + 1
         app_id == mn.app_ids_to_collect[k]
     IN  mn' = [mn EXCEPT
                  !.i = k,
                  !.requests = IF outcome = "skip" THEN @ ELSE @ + 1,
                  !.fetches = IF outcome = "skip" THEN @ ELSE @ + 1,
                  !.collected_data = IF outcome = "ok" THEN Append(@, app_id) ELSE @,
                  !.checkpoints = IF outcome # "skip" /\ CheckpointDue(k, checkpoint_interval)
                                  THEN @ + 1 ELSE @]
  /\ UNCHANGED <<collectorVars, rv, sm, an>>

\* lines 505-535: collect_bulk returns; the result is saved as JSON and CSV
\* (and Excel on request) unless it is empty
MainSave(excel) ==
  /\ mn.pc = "collect"
  /\ mn.i = Len(mn.app_ids_to_collect)
  /\ mn' = [mn EXCEPT !.pc = "done",
                      !.outputs = IF mn.collected_data = <<>> THEN 0
                                  ELSE IF excel THEN 3 ELSE 2]
  /\ UNCHANGED <<collectorVars, rv, sm, an>>

NextMain ==
  \/ \E has_checkpoints, answer \in BOOLEAN : MainStart(has_checkpoints, answer)
  \/ \E U \in AppIdUniverses : MainGetAllAppIds(U)
  \/ \E page \in Pages(IF mn.pc = "get_ids" THEN Len(mn.all_app_ids) ELSE 0) :
       MainListPage(page)
  \/ \E n \in 1..MaxLen, rng \in RngStates : MainRestore(n, rng)
  \/ \E n \in SampleSizes, seed \in Seeds, rng \in RngStates : MainChoose(n, seed, rng)
  \/ \E answer \in BOOLEAN : MainConfirm(answer)
  \/ \E outcome \in {"ok", "fail", "skip"} : MainVisit(outcome)
  \/ \E excel \in BOOLEAN : MainSave(excel)

SpecMain == Init /\ [][NextMain]_vars

\* ------------------------------------------------------------------------
\* the analysis scripts, one step at a time
\* ------------------------------------------------------------------------
AtStage(name) ==
  /\ an.pc = "run"
  /\ an.k < Len(Pipeline(an.script))
  /\ Pipeline(an.script)[an.k + 1] = name

\* the step is done: on to the next one, or the script is over
StageDone(a, name) ==
  [a EXCEPT !.k = @ + 1,
            !.reached = @ \cup {name},
            !.pc = IF a.k + 1 = Len(Pipeline(a.script)) THEN "done" ELSE "run"]
StageRaised(a, name) == [a EXCEPT !.pc = "raised", !.reached = @ \cup {name}]

\* a script is started on the values of a column (or of the typed lines)
AnalysisStart(script, data) ==
  /\ an.pc = "idle"
  /\ an' = [AnalysisFresh EXCEPT !.pc = "run", !.script = script, !.data = data]
  /\ UNCHANGED <<collectorVars, rv, sm, mn>>

\* the values > 0 are kept; load_review_data then prints len(reviews)/len(df),
\* which raises ZeroDivisionError for a file without rows
Filter ==
  /\ AtStage("filter")
  /\ an' = IF an.script = "analyze_review_power_law" /\ an.data = <<>>
           THEN StageRaised(an, "filter")
           ELSE StageDone([an EXCEPT !.sample = PositiveOnly(an.data)], "filter")
  /\ UNCHANGED <<collectorVars, rv, sm, mn>>

\* if len(data) == 0: return None, None, None / print the message and return
EmptyGuard ==
  /\ AtStage("guard")
  /\ an' = IF an.sample = <<>>
           THEN [an EXCEPT !.pc = "no_data", !.reached = @ \cup {"guard"}]
           ELSE StageDone(an, "guard")
  /\ UNCHANGED <<collectorVars, rv, sm, mn>>

\* np.mean, np.median, np.max, np.min of the sample: np.max raises ValueError
\* for an empty array
BasicStats ==
  /\ AtStage("stats")
  /\ an' = IF an.sample = <<>> THEN StageRaised(an, "stats") ELSE StageDone(an, "stats")
  /\ UNCHANGED <<collectorVars, rv, sm, mn>>

\* the descending sort, the ranks and the two log10 transforms
LogTransform ==
  /\ AtStage("log")
  /\ an' = StageDone([an EXCEPT !.log_ranks = LogRanks(Len(an.sample)),
                                !.log_values = LogValues(SortDesc(an.sample))], "log")
  /\ UNCHANGED <<collectorVars, rv, sm, mn>>

\* stats.linregress(log_ranks, log_values): ValueError for empty inputs
Regress ==
  /\ AtStage("regress")
  /\ an' = IF an.log_ranks = <<>>
           THEN StageRaised(an, "regress")
           ELSE StageDone([an EXCEPT !.regression = linregress(an.log_ranks, an.log_values)],
                          "regress")
  /\ UNCHANGED <<collectorVars, rv, sm, mn>>

\* the Gini coefficient of the sample
GiniStep ==
  /\ AtStage("gini")
  /\ an' = StageDone([an EXCEPT !.gini = Gini(an.sample)], "gini")
  /\ UNCHANGED <<collectorVars, rv, sm, mn>>

\* the top 20% (Pareto) ratio and the top 1%, 5%, 10% ratios
TopK ==
  /\ AtStage("topk")
  /\ an' = StageDone([an EXCEPT !.top = TopSums(an.script, an.sample)], "topk")
  /\ UNCHANGED <<collectorVars, rv, sm, mn>>

NextAnalysis ==
  \/ \E script \in Scripts, data \in Samples : AnalysisStart(script, data)
  \/ Filter
  \/ EmptyGuard
  \/ BasicStats
  \/ LogTransform
  \/ Regress
  \/ GiniStep
  \/ TopK

SpecAnalysis == Init /\ [][NextAnalysis]_vars

\* ------------------------------------------------------------------------
\* Claims
\* ------------------------------------------------------------------------
NoDuplicates(data) ==
  \A j, k \in 1..Len(data) : j # k => data[j].app_id # data[k].app_id

Running == pc \in {"loop", "save_ckpt", "save_pids"}
LoopStart == pc = "loop" /\ i = 0
HasRepeat(ids) == \E j, k \in 1..Len(ids) : j # k /\ ids[j] = ids[k]

ReadableUpTo(n) == {k \in Counters : k <= n /\ ckpt[k].state = "ok"}
Highest(S) == CHOOSE k \in S : \A j \in S : j <= k

\* C2: when a resume run reaches its loop and readable checkpoint files with a
\* counter of at most len(app_ids) exist, the one with the highest counter was
\* loaded: all_data is its record list and processed_ids the ids of its records.
C2_HighestLoaded ==
  (LoopStart /\ resume /\ ReadableUpTo(Len(app_ids)) # {}) =>
     /\ checkpoint_loaded
     /\ all_data = ckpt[Highest(ReadableUpTo(Len(app_ids)))].data
     /\ processed_ids = IdsOf(all_data)

\* collect_bulk on ids without kill and without a checkpoint to resume from, for
\* a remote service whose outcome depends only on the identifier
RECURSIVE PlainRun(_, _, _)
PlainRun(ids, k, data) ==
  IF k > Len(ids) THEN data
  ELSE IF IsProcessed(ids[k], IdsOf(data)) THEN PlainRun(ids, k + 1, data)
  ELSE IF oracle[ids[k]] = "ok"
       THEN PlainRun(ids, k + 1, data \o get_player_count(ids[k], RespCount(ids[k])))
       ELSE PlainRun(ids, k + 1, data)

RecordsOf(data) == {data[k] : k \in 1..Len(data)}

\* C3: with a fetch whose outcome depends only on the identifier, a run that
\* was killed after it wrote a checkpoint and is run again with resume=True on
\* the same list returns the records of one uninterrupted run (as a set).
C3_ResumeEqualsPlain ==
  (pc = "done" /\ resume /\ interrupted /\ same_list) =>
     RecordsOf(all_data) = RecordsOf(PlainRun(app_ids, 1, <<>>))

\* C3 witness: such a resumed run loaded a checkpoint with a record, fetched a
\* further identifier successfully, had a failed fetch, and returned.
C3_Witness ==
  /\ pc = "done" /\ resume /\ interrupted /\ same_list
  /\ checkpoint_loaded /\ start_index > 0
  /\ stats.failed > 0
  /\ \E a \in IDs : fetched[a] > 0 /\ a \in processed_ids
  /\ \E a \in IDs : fetched[a] = 0 /\ a \in processed_ids

\* records of the accumulator that no readable checkpoint file holds
Unsaved ==
  {k \in 1..Len(all_data) :
     \A c \in Counters : ckpt[c].state = "ok" => all_data[k] \notin RecordsOf(ckpt[c].data)}

\* C4: at any point of a run the results that are only in memory are at most
\* checkpoint_interval many (stated for runs in which no file write failed).
C4_LossAtMostInterval ==
  faults = 0 => Cardinality(Unsaved) <= checkpoint_interval

\* C5 as claimed: outside the two writes of a checkpoint step, also after a
\* kill, the processed-ID file holds exactly the app_ids of the records of the
\* checkpoint file written last (stated for runs in which no file write failed).
C5_PidsMatchNewest ==
  (faults = 0 /\ newest # 0 /\ pc \in {"loop", "done", "idle"}) =>
     pids_file = PidsOf(IdsOf(ckpt[newest].data))

\* C5 amended: after a checkpoint step in which both writes succeeded, the
\* processed-ID file holds exactly the app_ids of the records of the checkpoint
\* file that this step wrote.
C5_PidsMatchAfterStep ==
  (step_ckpt = "ok" /\ step_pids = "ok") =>
     /\ ckpt[i].state = "ok"
     /\ pids_file = PidsOf(IdsOf(ckpt[i].data))

\* C5 witness: a checkpoint step with two successful writes saved two records.
C5_Witness ==
  /\ pc = "loop" /\ step_ckpt = "ok" /\ step_pids = "ok"
  /\ Len(ckpt[i].data) >= 2

\* C6: whenever the loop has gone through a position i with
\* i mod checkpoint_interval = 0 (fetched, failed or skipped), the checkpoint
\* file with counter i holds the whole accumulator and the processed-ID file
\* holds processed_ids (stated for runs in which no file write failed).
C6_CheckpointEveryInterval ==
  (faults = 0 /\ pc \in {"loop", "done"} /\ i > 0 /\ CheckpointDue(i, checkpoint_interval)) =>
     /\ ckpt[i] = FileOf(all_data)
     /\ pids_file = PidsOf(processed_ids)

\* C7: each identifier is fetched at most once per run.
C7_FetchedAtMostOnce == \A a \in IDs : fetched[a] <= 1

Candidates ==
  {k \in Counters : k <= Len(app_ids) /\ (Len(app_ids) - k) % checkpoint_interval = 0}

C9_AbsentCountsAsFailed ==
  [][(i' = i + 1 /\ response' \in FailResponses) =>
       /\ get_player_count(app_ids[i'], response') = <<>>
       /\ stats'.failed = stats.failed + 1
       /\ stats'.successful = stats.successful
       /\ all_data' = all_data
       /\ processed_ids' = processed_ids
       /\ pc' \in {"loop", "save_ckpt"}]_vars

\* C9 witness: after a pass with a response without the count, two passes have
\* failed, one gave a record, and the loop goes on.
C9_Witness ==
  /\ pc = "loop" /\ response = RespNoCount
  /\ stats.failed = 2 /\ Len(all_data) = 1
  /\ i < Len(app_ids)

RECURSIVE SumOver(_, _)
SumOver(f, S) ==
  IF S = {} THEN 0
  ELSE LET a == CHOOSE x \in S : TRUE IN f[a] + SumOver(f, S \ {a})

\* requests made by this run
TotalFetched == SumOver(fetched, IDs)

\* 1 while the item fetched last has not been followed by its sleep: the
\* checkpoint step comes before the sleep, and the last item of the list has none
SleepPending ==
  IF pc \in {"save_ckpt", "save_pids"} THEN 1
  ELSE IF i = Len(app_ids) /\ last_visit \in {"ok", "fail"} THEN 1
  ELSE 0

\* C11: in collect_bulk every fetched identifier (success or failure) is
\* followed by one sleep before the next identifier, except the last item of
\* the list: the number of sleeps is the number of requests of the run, less
\* the one request whose sleep is still to come or that was the last item.
C11_SleepAfterEachFetch ==
  pc \in {"loop", "save_ckpt", "save_pids", "done"} =>
     sleeps = TotalFetched - SleepPending

\* C11 witness: a run over four distinct identifiers has ended after a failed
\* and a successful request and a checkpoint step, with three sleeps.
C11_Witness ==
  /\ pc = "done" /\ ~resume /\ Len(app_ids) = 4 /\ ~HasRepeat(app_ids)
  /\ stats.failed > 0 /\ stats.successful > 0
  /\ newest # 0
  /\ TotalFetched = 4 /\ sleeps = 3

\* C12: the loop visits the positions 1..n in order, one at a time, and when
\* the last position is done the run returns the accumulator: the loop is not
\* left in any other way (a kill of the process aside).
C12_VisitsAllThenReturns ==
  [][/\ (Running /\ pc' # "idle" /\ i' # i) => (pc = "loop" /\ i' = i + 1)
     /\ (Running /\ pc' \notin {"loop", "save_ckpt", "save_pids", "idle"}) =>
          (i = Len(app_ids) /\ pc' = "done" /\ all_data' = all_data)]_vars

NoRepeat(q) == \A j, k \in 1..Len(q) : j # k => q[j] # q[k]

\* C13: for a non-empty universe and a target count k >= 0 a call of
\* random_sample_app_ids returns a list of min(k, |U|) identifiers, each taken
\* from a position of U, no position twice.
C13_SampleSizedAndDistinct ==
  sm.pc # "idle" =>
     /\ ~sm.first.raised
     /\ Len(sm.first.sampled_ids) = Min(sm.sample_size, Len(sm.all_app_ids))
     /\ NoRepeat(sm.first.picked)
     /\ \A j \in 1..Len(sm.first.sampled_ids) :
          /\ sm.first.picked[j] \in 1..Len(sm.all_app_ids)
          /\ sm.first.sampled_ids[j] = sm.all_app_ids[sm.first.picked[j]]

\* C14: two calls of random_sample_app_ids with the same seed (not None), the
\* same universe and the same target count have the same outcome and return the
\* same identifiers, whatever was drawn from the generator before each call.
C14_SameSeedSameSample ==
  (sm.pc = "called_twice" /\ sm.seed # None) =>
     /\ sm.second.raised = sm.first.raised
     /\ sm.second.sampled_ids = sm.first.sampled_ids

\* C14 witness: two calls with a seed returned two or more identifiers of a
\* larger universe, and the generator was in different states before them.
C14_Witness ==
  /\ sm.pc = "called_twice" /\ sm.seed # None
  /\ sm.first.rng_before # sm.second.rng_before
  /\ ~sm.first.raised
  /\ Len(sm.first.sampled_ids) >= 2
  /\ Len(sm.all_app_ids) > Len(sm.first.sampled_ids)

\* C15: when get_all_app_ids returned an empty universe, main() has halted:
\* nothing was sampled, no item was fetched, no checkpoint and no output file
\* was written.
C15_EmptyUniverseHalts ==
  (mn.pc # "idle" /\ mn.requests > 0 /\ mn.all_app_ids = <<>>) =>
     /\ mn.pc = "halted"
     /\ ~mn.sampled /\ mn.app_ids_to_collect = <<>>
     /\ mn.fetches = 0 /\ mn.checkpoints = 0 /\ mn.outputs = 0
     /\ mn.requests = 1

\* C15 witness: main() halted on an empty universe after the user had asked
\* to resume from the checkpoint files in the directory.
C15_Witness ==
  /\ mn.pc = "halted" /\ mn.resume_mode
  /\ mn.all_app_ids = <<>> /\ mn.requests = 1

\* C16: every network request of main() comes after the start confirmation
\* was answered with yes.
C16_NoRequestBeforeConfirm ==
  (mn.pc # "idle" /\ mn.requests > 0) => mn.confirmed

\* the filter has run and left no value
FilteredEmpty ==
  /\ an.pc # "idle"
  /\ "filter" \in an.reached
  /\ an.sample = <<>>
  /\ ~(an.pc = "raised" /\ an.reached = {"filter"})

\* C17: in every analysis script, when no value > 0 is left after the filter,
\* the script reports "no data" and stops: it does not raise and does not
\* reach min/max/median, the log transform or the regression.
C17_EmptySampleReportsNoData ==
  FilteredEmpty =>
     /\ an.pc \in {"run", "no_data"}
     /\ an.reached \subseteq {"filter", "guard"}

AllEqual(q) == \A j, k \in 1..Len(q) : q[j] = q[k]

\* C18: the Gini coefficient computed for a non-empty sample of positive
\* values is in [0, 1), and it is 0 when all values are equal.
C18_GiniInUnitInterval ==
  (an.pc # "idle" /\ "gini" \in an.reached) =>
     /\ an.sample # <<>>
     /\ an.gini.den > 0
     /\ 0 <= an.gini.num /\ an.gini.num < an.gini.den
     /\ (AllEqual(an.sample) => an.gini.num = 0)

\* C18 witness: the Gini coefficient of [100, 10, 1] was computed and is
\* 198/333.
C18_Witness ==
  /\ an.pc = "done" /\ an.data = <<100, 10, 1>>
  /\ "gini" \in an.reached
  /\ an.gini = [num |-> 198, den |-> 333]

Geometric == <<1000, 500, 250, 125>>

\* C19 as claimed: for [1000, 500, 250, 125] the regression of log10(value) on
\* log10(rank) has R^2 = 1: ssxym^2 = ssxm * ssym.
C19_GeometricRSquaredIsOne ==
  (an.pc # "idle" /\ an.data = Geometric /\ "regress" \in an.reached) =>
     an.regression.ssxym * an.regression.ssxym = an.regression.ssxm * an.regression.ssym

\* C19 amended: for [1000, 500, 250, 125] the regression of log10(value) on
\* log10(rank) has a negative slope and an R^2 above 0.9 and below 1: the
\* logarithms of the values are evenly spaced, those of the ranks are not.
C19_GeometricRSquaredBelowOne ==
  (an.pc # "idle" /\ an.data = Geometric /\ "regress" \in an.reached) =>
     /\ an.regression.ssxym < 0
     /\ an.regression.ssxym * an.regression.ssxym < an.regression.ssxm * an.regression.ssym
     /\ 10 * an.regression.ssxym * an.regression.ssxym
          > 9 * an.regression.ssxm * an.regression.ssym

\* C19 witness: calculate_power_law has run the regression on the sequence.
C19_Witness ==
  /\ an.pc = "done" /\ "regress" \in an.reached
  /\ an.script = "calc_power_law_simple" /\ an.data = Geometric
  /\ an.log_values = <<300, 270, 240, 210>>

\* the sub-requests of one item and the pauses between them, in order
SubRequests == <<"is_game", "sleep", "player_count", "sleep", "review_count">>
IsPrefix(q, t) == Len(q) <= Len(t) /\ \A k \in 1..Len(q) : q[k] = t[k]

\* C20: the sub-requests of one item are issued in the order is_game, player
\* count, review count, with one pause between two consecutive ones, and when
\* the first answer is absent or not of type game nothing more is requested
\* for the item.
C20_SubRequestOrder ==
  rv.pc # "idle" =>
     /\ IsPrefix(rv.requests, SubRequests)
     /\ (rv.requests # <<>> /\ rv.game_resp.type # "game") => rv.requests = <<"is_game">>
     /\ rv.pc = "player" => rv.requests = <<"is_game", "sleep">>
     /\ rv.pc = "review" => rv.requests = <<"is_game", "sleep", "player_count", "sleep">>
     /\ rv.appended => rv.requests = SubRequests

\* C20 witness: the second item was an application that is not a game, after a
\* first item that went through all three sub-requests.
C20_Witness ==
  /\ rv.pc # "idle"
  /\ rv.i = 2 /\ Len(rv.all_data) = 1 /\ rv.failed = 1
  /\ rv.game_resp = GameDlc
  /\ rv.requests = <<"is_game">>

\* the candidates of the resume scan that exist on disk / that load
ExistingCandidates == {k \in Candidates : ckpt[k].state # "absent"}
ReadableCandidates == {k \in Candidates : ckpt[k].state = "ok"}

C21_ScanRepairsNothing ==
  [][(pc' = "loop" /\ i' = 0 /\ pc # "loop") => (ckpt' = ckpt /\ pids_file' = pids_file)]_vars

FailedWrites == {"open_error", "write_error"}

\* C22: a failed write of a checkpoint file or of the processed-ID file is
\* caught: the step leaves all_data, processed_ids, the counters and the loop
\* position as they were and the run goes on (to the second write of the step,
\* then to the loop and its next identifier).
C22_FailedWriteChangesNothing ==
  [][((pc = "save_ckpt" /\ step_ckpt' \in FailedWrites)
        \/ (pc = "save_pids" /\ step_pids' \in FailedWrites)) =>
       /\ all_data' = all_data
       /\ processed_ids' = processed_ids
       /\ stats' = stats
       /\ i' = i
       /\ app_ids' = app_ids
       /\ pc' = IF pc = "save_ckpt" THEN "save_pids" ELSE "loop"]_vars

\* C22 witness: the checkpoint write of a step failed, the processed-ID write
\* after it succeeded, and the loop is at its next identifier with the records
\* still in the accumulator.
C22_Witness ==
  /\ pc = "loop" /\ i < Len(app_ids)
  /\ step_ckpt \in FailedWrites /\ step_pids = "ok"
  /\ Len(all_data) >= 2
  /\ ckpt[i] # FileOf(all_data)

\* the loop of collect_bulk is over (line 271 and after)
LoopEnded == pc \in {"done", "raised"} \/ (pc = "loop" /\ i = Len(app_ids))

\* C23: when the loop has ended, successful + failed equals total_requested
\* (the length of the input list), for fresh and resumed runs and any list, so
\* successful never exceeds total_requested.
C23_CountersSumToTotal ==
  LoopEnded =>
    /\ stats.total_requested = Len(app_ids)
    /\ stats.successful + stats.failed = stats.total_requested
    /\ stats.successful <= stats.total_requested

\* the records of the accumulator with player_count > 0
WithPlayers(data) == {k \in 1..Len(data) : data[k].player_count > 0}

\* C24: at every point of the loop and at its end, with_players is the number
\* of records of the accumulator whose player_count is greater than 0, also in
\* a run that was resumed from a checkpoint.
C24_WithPlayersCountsRecords ==
  (Running \/ LoopEnded) => stats.with_players = Cardinality(WithPlayers(all_data))

\* C25: every record of the list collect_bulk returns has an app_id of the
\* app_ids argument of that call, and the list has at most len(app_ids)
\* records; also for a resumed run on the list main() rebuilt.
C25_RecordsWithinArgument ==
  pc = "done" =>
    /\ IdsOf(all_data) \subseteq Range(app_ids)
    /\ Len(all_data) <= Len(app_ids)

\* C26: after any sequence of fresh, killed and resumed runs on the same list,
\* a readable checkpoint file of the prefix with a higher counter contains
\* every record that one with a lower counter contains.
C26_HigherContainsLower ==
  same_list =>
    \A j, k \in Counters :
      (j < k /\ ckpt[j].state = "ok" /\ ckpt[k].state = "ok") =>
        RecordsOf(ckpt[j].data) \subseteq RecordsOf(ckpt[k].data)

\* C27: collect_bulk never ends with an exception, for any input list; with an
\* empty list it makes no fetch, writes no checkpoint and returns an empty
\* accumulator.
C27_EmptyListReturns ==
  /\ pc # "raised"
  /\ (app_ids = <<>> /\ pc \in {"loop", "done", "raised"}) =>
       (TotalFetched = 0 /\ ~wrote /\ all_data = <<>>)

\* C28: for every non-empty sample of positive values each top-k ratio
\* (slice sum over total) is in (0, 1] and the ratios are ordered
\* top 1% <= top 5% <= top 10% <= top 20%.
C28_TopRatiosInRangeAndOrdered ==
  (an.pc # "idle" /\ "topk" \in an.reached) =>
     /\ \A t \in {an.top.p1, an.top.p5, an.top.p10, an.top.p20} :
          0 < t /\ t <= an.top.total
     /\ an.top.p1 <= an.top.p5
     /\ an.top.p5 <= an.top.p10
     /\ an.top.p10 <= an.top.p20

\* C29: calculate_power_law never raises, and what it returns is the sentinel
\* (no positive value) or a numeric exponent with R-squared and the count, also
\* for a sample with exactly one positive value.
C29_AlwaysAResult ==
  (an.pc # "idle" /\ an.script = "calc_power_law_simple") =>
     /\ an.pc # "raised"
     /\ (an.sample = <<>> /\ "guard" \in an.reached) => an.pc = "no_data"
     /\ "regress" \in an.reached => SlopeIsNumber(an.regression)

\* C30: in the paged listing a further page is requested only when the page
\* before it had identifiers and reported have_more_results true; and when a
\* page request fails after identifiers were read, the list stays as the
\* earlier pages left it and main() goes on with it (it does not halt).
C30_PagedListingKeepsEarlierPages ==
  [][(mn.pc = "get_ids" /\ mn.pages > 0 /\ mn'.pages = mn.pages + 1) =>
       /\ mn.last_page = "ids" /\ mn.has_more
       /\ mn'.last_page = "failed" =>
            /\ mn'.all_app_ids = mn.all_app_ids
            /\ mn'.all_app_ids # <<>>
            /\ mn'.pc \in {"restore", "choose"}]_vars

\* C30 witness: the third page request failed and main() is past the test of
\* the universe with the identifiers of the first two pages.
C30_Witness ==
  /\ mn.pc \in {"restore", "choose"}
  /\ mn.pages = 3 /\ mn.last_page = "failed"
  /\ Len(mn.all_app_ids) >= 2

\* C10: no attribute of a record is built from a malformed or failed response:
\* when the review request of an appended record came back without a review
\* summary (transport failure, non-200, unparsable or unexpected body), the
\* record has no review count, whichever of these outcomes it was.
C10_AbsentAlike ==
  (rv.pc # "idle" /\ rv.appended /\ rv.review_resp \in RevAbsentResponses) =>
     rv.all_data[Len(rv.all_data)].total_reviews = None

TypeOK ==
  /\ pc \in {"idle", "loop", "save_ckpt", "save_pids", "done", "raised"}
  /\ i \in 0..MaxLen
  /\ processed_ids \subseteq IDs
====
